---- MODULE Spec2Model ----
(***************************************************************************)
(* A model of the nodejs-monitoring agent: the RequestTracker counters and *)
(* rolling windows, the MonitoringService metrics history, the probe       *)
(* scheduler with its result table, the built-in probes and the two HTTP   *)
(* handlers.  Every action is one event-loop callback (or one synchronous  *)
(* public call) run to completion, as Node.js runs them.                    *)
(*                                                                         *)
(* Time is Date.now() in milliseconds.  CPU usage is kept in hundredths of *)
(* a percent, the resolution getCpuMetrics rounds to.                      *)
(***************************************************************************)
EXTENDS Integers, Sequences, FiniteSets, TLC

VARIABLES
    now,               \* Date.now()
    memPercentage,     \* os reading: Math.round(used / total * 100)
    cpuUsage,          \* SystemMetrics.cpuUsage, in hundredths of a percent
    memoryReadFails,   \* the memory read of the metrics source throws
    totalRequests,     \* RequestTracker.totalRequests
    activeRequests,    \* RequestTracker.activeRequests
    totalResponseTime, \* RequestTracker.totalResponseTime
    errors,            \* RequestTracker.errors
    requestTimes,      \* RequestTracker.requestTimes
    errorTimes,        \* RequestTracker.errorTimes
    metricsHistory,    \* MonitoringService.metricsHistory
    lastCollect,       \* when the collection timer was armed or last fired
    alertThresholds,   \* config.alertThresholds: memoryUsage and cpuUsage
    customProbes,      \* MonitoringService.customProbes
    probeResults,      \* MonitoringService.probeResults
    pending,           \* executeProbe calls suspended on an unsettled promise,
                       \* in the order they were started
    microtasks,        \* continuations of executeProbe calls, ready to run
    timerRuns,         \* history variable: probe timer callbacks so far,
                       \* counted up to RunsCounted
    fired,             \* history variable: the probe whose timer callback
                       \* ran last (0 before the first)
    timers,            \* per registered probe, its setInterval timer; <<>> in
                       \* the specifications that do not follow the clock
    inTick,            \* code of the host is running (a callback has not returned)
    writer,            \* history variable: per name, the run that wrote its entry
    uncaught,          \* exceptions that left executeProbe or a timer callback
    healthResponse,    \* what healthCheckHandler sent last (<<>> before)
    historyQuery,      \* req.query.limit of the last metrics-history request
    historyResponse,   \* what metricsHistoryHandler sent for it (<<>> before)
    nStart,            \* history variable: startRequest calls so far
    nEnd,              \* history variable: endRequest calls so far
    collected,         \* history variable: every snapshot a tick appended
    allRequestTimes,   \* history variable: every value pushed on requestTimes
    allErrorTimes,     \* history variable: every value pushed on errorTimes
    enableRequestTracking, \* config.enableRequestTracking
    enableErrorTracking,   \* config.enableErrorTracking
    inFlight,          \* responses that have not finished, each with the
                       \* listeners the middleware put on its finish event
    served,            \* history variable: the responses that have finished
    instance,          \* MonitoringService.instance: <<>> while undefined, else
                       \* the object, told from others by its serial number
    returned           \* history variable: what each getInstance call returned

vars == <<now, memPercentage, cpuUsage, memoryReadFails, totalRequests, activeRequests,
          totalResponseTime, errors, requestTimes, errorTimes,
          metricsHistory, lastCollect, alertThresholds, customProbes,
          probeResults, pending, microtasks, timerRuns, fired, timers, inTick,
          writer,
          uncaught, healthResponse,
          historyQuery, historyResponse,
          nStart, nEnd, collected, allRequestTimes, allErrorTimes,
          enableRequestTracking, enableErrorTracking, inFlight, served,
          instance, returned>>

trackerVars == <<totalRequests, activeRequests, totalResponseTime, errors,
                 requestTimes, errorTimes, nStart, nEnd, allRequestTimes,
                 allErrorTimes>>
envVars == <<memPercentage, cpuUsage, memoryReadFails>>
historyVars == <<metricsHistory, lastCollect, collected>>
probeVars == <<alertThresholds, customProbes, probeResults, pending,
               microtasks, timerRuns, fired, timers, inTick, writer, uncaught>>
middlewareVars == <<enableRequestTracking, enableErrorTracking, inFlight, served>>
singletonVars == <<instance, returned>>
httpVars == <<healthResponse, historyQuery, historyResponse, middlewareVars,
              singletonVars>>

----------------------------------------------------------------------------
(* Program constants *)

metricsInterval == 30000
HistoryCapacity == 100
WindowCapacity == 100
FiveMinutes == 300000
startTime == 0

(* Bounds of the model *)

MaxCalls == 2        \* startRequest calls, and endRequest calls, in a run
MaxErrors == 1       \* recordError calls in a run of SpecTracker
MaxSteps == 1        \* clock advances (of one metricsInterval) in SpecTracker
MaxOverflow == 2     \* collection ticks beyond HistoryCapacity in SpecRetention
MaxQueryLen == 2     \* characters of a limit query parameter
MaxRuns == 1         \* probe timer firings in a run
MaxCustom == 1       \* custom probes, configured or added, in a run
MaxClockSteps == 13  \* clock advances (of one ClockStep) in SpecSchedule
MaxSamples == 6      \* collection ticks in SpecSampling
MaxOperations == 2   \* state-changing calls and timer callbacks in SpecService
MaxRequests == 2     \* requests through the middleware in SpecMiddleware
MaxGets == 2         \* getInstance calls in SpecSingleton

\* the timer callbacks timerRuns tells apart: the specifications that
\* look at it stop the timers there at the latest
RunsCounted == MaxOperations

----------------------------------------------------------------------------
(* Helpers standing for JavaScript built-ins *)

Min(a, b) == IF a < b THEN a ELSE b

Last(s) == s[Len(s)]

RECURSIVE Sum(_)
Sum(s) == IF s = <<>> THEN 0 ELSE Head(s) + Sum(Tail(s))

\* Math.round(a / b) for b > 0: to the nearest integer, halves towards +infinity
RoundDiv(a, b) == (2 * a + b) \div (2 * b)

\* Array.prototype.push
Push(arr, x) == Append(arr, x)

\* Array.prototype.shift: drops the first element
Shift(arr) == Tail(arr)

----------------------------------------------------------------------------
(* RequestTracker *)

\* getMetrics()
getMetrics ==
    LET fiveMinutesAgo == now - FiveMinutes
        recentErrors == SelectSeq(errorTimes, LAMBDA time : time > fiveMinutesAgo)
    IN  [total |-> totalRequests,
         active |-> activeRequests,
         averageResponseTime |->
             IF Len(requestTimes) > 0
                 THEN RoundDiv(Sum(requestTimes), Len(requestTimes))
                 ELSE 0,
         errors |-> [total |-> errors,
                     rate |-> [num |-> Len(recentErrors), den |-> 5]]]

\* the array if the value pushed were dropped once the window is full
PushBoundedKeepOldest(arr, x, cap) ==
    IF Len(arr) >= cap THEN arr ELSE Push(arr, x)

\* the array after `push(x); if (length > 100) shift()`
PushBounded(arr, x, cap) ==
    LET pushed == Push(arr, x)
    IN  IF Len(pushed) > cap THEN Shift(pushed) ELSE pushed

\* startRequest(): both counters are incremented
StartRequest ==
    /\ totalRequests' = totalRequests + 1
    /\ activeRequests' = activeRequests + 1
    /\ nStart' = nStart + 1
    /\ UNCHANGED <<totalResponseTime, errors, requestTimes, errorTimes, nEnd,
                   allRequestTimes, allErrorTimes>>
    /\ UNCHANGED <<now, envVars, probeVars, historyVars, httpVars>>

\* endRequest as it would be if it kept the counter from going below zero
EndRequestClamped(reqStart) ==
    LET responseTime == now - reqStart
    IN  /\ activeRequests' = (IF activeRequests > 0 THEN activeRequests - 1 ELSE 0)
        /\ totalResponseTime' = totalResponseTime + responseTime
        /\ requestTimes' = PushBounded(requestTimes, responseTime, WindowCapacity)
        /\ nEnd' = nEnd + 1
        /\ allRequestTimes' = Append(allRequestTimes, responseTime)
        /\ UNCHANGED <<totalRequests, errors, errorTimes, nStart, allErrorTimes>>
        /\ UNCHANGED <<now, envVars, probeVars, historyVars, httpVars>>

\* endRequest(requestId, startTime): requestId is never read
EndRequest(reqStart) ==
    LET responseTime == now - reqStart
    IN  /\ activeRequests' = activeRequests - 1
        /\ totalResponseTime' = totalResponseTime + responseTime
        /\ requestTimes' = PushBounded(requestTimes, responseTime, WindowCapacity)
        /\ nEnd' = nEnd + 1
        /\ allRequestTimes' = Append(allRequestTimes, responseTime)
        /\ UNCHANGED <<totalRequests, errors, errorTimes, nStart, allErrorTimes>>
        /\ UNCHANGED <<now, envVars, probeVars, historyVars, httpVars>>

\* recordError()
RecordError ==
    /\ errors' = errors + 1
    /\ errorTimes' = PushBounded(errorTimes, now, WindowCapacity)
    /\ allErrorTimes' = Append(allErrorTimes, now)
    /\ UNCHANGED <<totalRequests, activeRequests, totalResponseTime,
                   requestTimes, nStart, nEnd, allRequestTimes>>
    /\ UNCHANGED <<now, envVars, probeVars, historyVars, httpVars>>

----------------------------------------------------------------------------
(* MonitoringService: snapshots and the metrics history *)

\* getMemoryMetrics() throws, and collectMetrics(), which does not catch,
\* with it
collectMetricsThrows == memoryReadFails

\* collectMetrics() when its reads return
collectMetrics ==
    LET requestMetrics == getMetrics
    IN  [timestamp |-> now,
         uptime |-> (now - startTime) \div 1000,
         memory |-> memPercentage,
         cpu |-> cpuUsage,
         requests |-> [total |-> requestMetrics.total,
                       active |-> requestMetrics.active,
                       averageResponseTime |-> requestMetrics.averageResponseTime],
         errors |-> requestMetrics.errors]

\* the tick as it would be without its trim
HistoryAfterTickNoTrim(history, metrics) == Push(history, metrics)

\* the tick as it would be if it trimmed at `length >= 100`
HistoryAfterTickEarlyTrim(history, metrics) ==
    LET pushed == Push(history, metrics)
    IN  IF Len(pushed) >= HistoryCapacity THEN Shift(pushed) ELSE pushed

\* the history after the tick's push and its trim to the last 100 entries
HistoryAfterTick(history, metrics) ==
    LET pushed == Push(history, metrics)
    IN  IF Len(pushed) > HistoryCapacity THEN Shift(pushed) ELSE pushed

\* the setInterval callback of startMetricsCollection; it fires once the
\* interval has elapsed since the timer was armed or last fired
CollectionTick ==
    /\ now >= lastCollect + metricsInterval
    /\ IF collectMetricsThrows
           THEN /\ uncaught' = uncaught + 1
                /\ UNCHANGED <<metricsHistory, collected>>
           ELSE LET metrics == collectMetrics
                IN  /\ metricsHistory' = HistoryAfterTick(metricsHistory, metrics)
                    /\ collected' = Append(collected, metrics)
                    /\ uncaught' = uncaught
    /\ lastCollect' = now
    /\ UNCHANGED <<now, envVars, trackerVars, httpVars>>
    /\ UNCHANGED <<alertThresholds, customProbes, probeResults, pending,
                   microtasks, timerRuns, fired, timers, inTick, writer>>

\* getCurrentMetrics as it would be if it recorded what it returns
GetCurrentMetricsRecording ==
    /\ metricsHistory' = Push(metricsHistory, collectMetrics)
    /\ UNCHANGED <<now, envVars, probeVars, trackerVars, lastCollect, collected,
                   httpVars>>

\* getCurrentMetrics(): returns collectMetrics() and writes nothing
getCurrentMetrics == collectMetrics

GetCurrentMetrics ==
    /\ getCurrentMetrics.timestamp = now
    /\ UNCHANGED <<now, envVars, probeVars, trackerVars, historyVars, httpVars>>

\* the memory read of the metrics source starts to fail, or works again
SourceChanges ==
    /\ memoryReadFails' = ~memoryReadFails
    /\ UNCHANGED <<now, memPercentage, cpuUsage, probeVars, trackerVars,
                   historyVars, httpVars>>

\* the clock moves on by d milliseconds
AdvanceClock(d) ==
    /\ now' = now + d
    /\ UNCHANGED <<envVars, probeVars, trackerVars, historyVars, httpVars>>

----------------------------------------------------------------------------
(* The metrics-history endpoint *)

\* The characters a limit parameter is made of here: white space, a sign,
\* decimal digits, the x of a hexadecimal prefix, and a letter that is a
\* hexadecimal digit but no decimal one.
QueryChars == {" ", "-", "0", "5", "x", "a"}

\* req.query.limit: absent, or a string
Missing == [present |-> FALSE, text |-> <<>>]
Given(str) == [present |-> TRUE, text |-> str]

Strings(n) == UNION {[1..k -> QueryChars] : k \in 0..n}
Queries == {Missing} \cup {Given(str) : str \in Strings(MaxQueryLen)}

\* ToString(value) of ECMA-262: undefined becomes the text "undefined"
ToStr(q) ==
    IF q.present THEN q.text ELSE <<"u", "n", "d", "e", "f", "i", "n", "e", "d">>

NaN == [nan |-> TRUE, neg |-> FALSE, abs |-> 0]
\* a Number that is an integer; -0 is [neg |-> TRUE, abs |-> 0]
Num(neg, abs) == [nan |-> FALSE, neg |-> neg, abs |-> abs]
Int2Num(i) == IF i < 0 THEN Num(TRUE, 0 - i) ELSE Num(FALSE, i)

DigitValue(c) ==
    CASE c = "0" -> 0 [] c = "5" -> 5 [] c = "a" -> 10 [] OTHER -> 99

IsDigit(c, radix) == DigitValue(c) < radix

RECURSIVE TrimStart(_)
TrimStart(str) ==
    IF str # <<>> /\ Head(str) = " " THEN TrimStart(Tail(str)) ELSE str

\* the longest prefix of str made of digits of the radix
RECURSIVE DigitPrefix(_, _)
DigitPrefix(str, radix) ==
    IF str # <<>> /\ IsDigit(Head(str), radix)
        THEN <<Head(str)>> \o DigitPrefix(Tail(str), radix)
        ELSE <<>>

RECURSIVE DigitsValue(_, _)
DigitsValue(digits, radix) ==
    IF digits = <<>> THEN 0
    ELSE DigitsValue(SubSeq(digits, 1, Len(digits) - 1), radix) * radix
             + DigitValue(Last(digits))

\* parseInt(value) with no radix argument (ECMA-262 19.2.5)
parseInt(q) ==
    LET trimmed == TrimStart(ToStr(q))
        signed == trimmed # <<>> /\ Head(trimmed) \in {"-", "+"}
        neg == trimmed # <<>> /\ Head(trimmed) = "-"
        unsigned == IF signed THEN Tail(trimmed) ELSE trimmed
        hex == Len(unsigned) >= 2 /\ unsigned[1] = "0" /\ unsigned[2] = "x"
        radix == IF hex THEN 16 ELSE 10
        body == IF hex THEN Tail(Tail(unsigned)) ELSE unsigned
        digits == DigitPrefix(body, radix)
    IN  IF digits = <<>> THEN NaN ELSE Num(neg, DigitsValue(digits, radix))

\* ToBoolean of a Number: NaN, +0 and -0 are falsy
Truthy(n) == ~n.nan /\ n.abs # 0

DefaultLimit == 50

\* parseInt(req.query.limit) || 50
LimitOf(q) == IF Truthy(parseInt(q)) THEN parseInt(q) ELSE Int2Num(DefaultLimit)

\* Array.prototype.slice(start) with one integer argument
Slice(arr, start) ==
    LET len == Len(arr)
        k == IF start < 0
                 THEN (IF len + start > 0 THEN len + start ELSE 0)
                 ELSE (IF start < len THEN start ELSE len)
    IN  SubSeq(arr, k + 1, len)

\* the handler as it would be if it took the first `limit` snapshots
metricsHistoryHandlerOldest(q) ==
    LET limit == LimitOf(q)
        metrics == SubSeq(metricsHistory, 1, Min(limit.abs, Len(metricsHistory)))
    IN  [metrics |-> metrics,
         count |-> Len(metrics),
         latest |-> IF metrics = <<>> THEN <<>> ELSE <<Last(metrics)>>]

\* the body metricsHistoryHandler sends: slice(-limit), its length, and its
\* last element (undefined, here <<>>, when the slice is empty)
metricsHistoryHandler(q) ==
    LET limit == LimitOf(q)
        start == IF limit.neg THEN limit.abs ELSE 0 - limit.abs
        metrics == Slice(metricsHistory, start)
    IN  [metrics |-> metrics,
         count |-> Len(metrics),
         latest |-> IF metrics = <<>> THEN <<>> ELSE <<Last(metrics)>>]

\* GET <healthPath>/metrics?limit=q: the handler runs to completion and
\* res.json() hands the body over
MetricsHistoryRequest(q) ==
    /\ historyQuery' = q
    /\ historyResponse' = <<metricsHistoryHandler(q)>>
    /\ UNCHANGED <<now, envVars, probeVars, trackerVars, historyVars, healthResponse,
                   middlewareVars, singletonVars>>

\* the body has left the process
ResponseSent ==
    /\ historyResponse # <<>>
    /\ historyQuery' = Missing
    /\ historyResponse' = <<>>
    /\ UNCHANGED <<now, envVars, probeVars, trackerVars, historyVars, healthResponse,
                   middlewareVars, singletonVars>>

----------------------------------------------------------------------------
(* ProbeResult values *)

Statuses == {"healthy", "warning", "critical"}

\* the value `undefined`, which a check written in JavaScript may resolve with
Undefined == [undefined |-> TRUE]

\* probe.status: undefined when the object has no such property
StatusOf(result) ==
    IF "status" \in DOMAIN result THEN result.status ELSE "undefined"

----------------------------------------------------------------------------
(* BuiltInProbes.  A template literal is the sequence of its parts. *)

DefaultThreshold == 80
DefaultInterval == 60000

\* a default parameter value: `threshold: number = 80`
ThresholdOr(opt) == IF opt = <<>> THEN DefaultThreshold ELSE opt[1]

\* a number with two decimals, as JavaScript prints it
FormatHundredths(u) ==
    IF u % 100 = 0 THEN ToString(u \div 100)
    ELSE IF u % 10 = 0
        THEN ToString(u \div 100) \o "." \o ToString((u % 100) \div 10)
        ELSE ToString(u \div 100) \o "." \o ToString((u % 100) \div 10)
                 \o ToString(u % 10)

\* the memory check as it would be with `>=` for `>`
MemoryCheckInclusive(usage, threshold) ==
    IF usage >= threshold
        THEN [status |-> "critical",
              message |-> <<"Memory usage is ", ToString(usage),
                            "% (threshold: ", ToString(threshold), "%)">>,
              value |-> usage]
    ELSE IF 10 * usage >= 8 * threshold
        THEN [status |-> "warning",
              message |-> <<"Memory usage is ", ToString(usage),
                            "% (approaching threshold)">>,
              value |-> usage]
        ELSE [status |-> "healthy",
              message |-> <<"Memory usage is ", ToString(usage), "%">>,
              value |-> usage]

\* createMemoryProbe(threshold).check() on a reading of `usage` percent;
\* `usage > threshold * 0.8` is written without the fraction
MemoryCheck(usage, threshold) ==
    IF usage > threshold
        THEN [status |-> "critical",
              message |-> <<"Memory usage is ", ToString(usage),
                            "% (threshold: ", ToString(threshold), "%)">>,
              value |-> usage]
    ELSE IF 10 * usage > 8 * threshold
        THEN [status |-> "warning",
              message |-> <<"Memory usage is ", ToString(usage),
                            "% (approaching threshold)">>,
              value |-> usage]
        ELSE [status |-> "healthy",
              message |-> <<"Memory usage is ", ToString(usage), "%">>,
              value |-> usage]

\* createCpuProbe(threshold).check() on a usage in hundredths of a percent
CpuCheck(usage, threshold) ==
    IF usage > 100 * threshold
        THEN [status |-> "critical",
              message |-> <<"CPU usage is ", FormatHundredths(usage),
                            "% (threshold: ", ToString(threshold), "%)">>,
              value |-> usage]
    ELSE IF 10 * usage > 800 * threshold
        THEN [status |-> "warning",
              message |-> <<"CPU usage is ", FormatHundredths(usage),
                            "% (approaching threshold)">>,
              value |-> usage]
        ELSE [status |-> "healthy",
              message |-> <<"CPU usage is ", FormatHundredths(usage), "%">>,
              value |-> usage]

\* createUptimeProbe().check(); process.uptime() in whole seconds
UptimeCheck ==
    LET uptime == (now - startTime) \div 1000
        hours == uptime \div 3600
        minutes == (uptime % 3600) \div 60
    IN  [status |-> "healthy",
         message |-> <<"Application has been running for ", ToString(hours),
                       "h ", ToString(minutes), "m">>,
         value |-> uptime]

\* createDiskSpaceProbe().check(): fs.statSync(process.cwd()) returns or throws
DiskCheck(accessible) ==
    IF accessible
        THEN [status |-> "healthy",
              message |-> <<"Disk space check completed">>,
              metadata |-> [accessible |-> TRUE]]
        ELSE [status |-> "critical",
              message |-> <<"Cannot access disk space">>,
              metadata |-> [accessible |-> FALSE]]

\* A check function is named by its kind; the built-in ones close over their
\* threshold.  interval is <<>> when the probe gives none.
Probe(name, kind, threshold) ==
    [name |-> name, check |-> [kind |-> kind, threshold |-> threshold],
     interval |-> <<>>]

createMemoryProbe(opt) == Probe("memory_usage", "memory", ThresholdOr(opt))
createCpuProbe(opt) == Probe("cpu_usage", "cpu", ThresholdOr(opt))
createUptimeProbe == Probe("uptime", "uptime", 0)
createDiskSpaceProbe == Probe("disk_space", "disk", 0)

\* initializeBuiltInProbes as it would be with the two thresholds mixed up
initializeBuiltInProbesSwapped(thresholds, configProbes) ==
    <<createMemoryProbe(thresholds.cpuUsage),
      createCpuProbe(thresholds.memoryUsage),
      createUptimeProbe,
      createDiskSpaceProbe>> \o configProbes

\* initializeBuiltInProbes(): the four built-in probes, then config.customProbes
initializeBuiltInProbes(thresholds, configProbes) ==
    <<createMemoryProbe(thresholds.memoryUsage),
      createCpuProbe(thresholds.cpuUsage),
      createUptimeProbe,
      createDiskSpaceProbe>> \o configProbes

----------------------------------------------------------------------------
(* What one call of a check function can do *)

\* The promise check() returns is fulfilled or rejected; `settled` says
\* whether it already is when executeProbe awaits it (an async function with
\* no await of its own, as the built-in checks are), so that the continuation
\* is a microtask of the running callback, or settles in a later callback.
Resolve(value, settled) == [type |-> "resolve", value |-> value, settled |-> settled]
Reject(error, settled) == [type |-> "reject", error |-> error, settled |-> settled]
\* check() throws before it returns a promise
Throw(error) == [type |-> "throw", error |-> error, settled |-> TRUE]
\* the promise never settles
Hang == [type |-> "hang", settled |-> FALSE]

\* what a check can throw or reject with: an Error carrying a message, or a
\* value that is no Error (here a string)
Failures == {[isError |-> TRUE, text |-> "connection refused"],
             [isError |-> FALSE, text |-> "timed out"]}

\* what a well-behaved custom check resolves with
CustomResults == {[status |-> s, message |-> <<"custom check">>] : s \in Statuses}

FailureOutcomes ==
    {Reject(e, settled) : e \in Failures, settled \in BOOLEAN}
        \cup {Throw(e) : e \in Failures}

\* The custom checks of the model: one that returns healthy at once, one
\* that fails on every call, in any of the ways a function returning a
\* promise can fail, and one that waits for I/O and then resolves with any
\* value, or never settles.
Outcomes(check) ==
    CASE check.kind = "memory" ->
            IF memoryReadFails
                THEN {Reject([isError |-> TRUE, text |-> "read failed"], TRUE)}
                ELSE {Resolve(MemoryCheck(memPercentage, check.threshold), TRUE)}
      [] check.kind = "cpu" -> {Resolve(CpuCheck(cpuUsage, check.threshold), TRUE)}
      [] check.kind = "uptime" -> {Resolve(UptimeCheck, TRUE)}
      [] check.kind = "disk" -> {Resolve(DiskCheck(a), TRUE) : a \in BOOLEAN}
      [] check.kind = "steady" ->
            {Resolve([status |-> "healthy", message |-> <<"custom check">>], TRUE)}
      [] check.kind = "failing" -> FailureOutcomes
      [] check.kind = "hung" -> {Hang}
      [] check.kind = "delayed" ->
            {Resolve([status |-> "warning", message |-> <<"custom check">>], FALSE)}
      [] check.kind = "slow" ->
            {Resolve(r, FALSE) : r \in CustomResults \cup {Undefined}} \cup {Hang}

FailingProbe == Probe("database", "failing", 0)
\* a probe whose check never settles
HungProbe == Probe("upstream", "hung", 0)
\* a probe that waits for I/O and then resolves
DelayedProbe == Probe("search", "delayed", 0)
SlowProbe == Probe("cache", "slow", 0)
SteadyProbe == Probe("queue", "steady", 0)
\* a failing probe registered under the name of SteadyProbe
ShadowProbe == Probe("queue", "failing", 0)
\* a probe registered with an interval of its own
QuickProbe == [Probe("worker", "steady", 0) EXCEPT !.interval = <<20000>>]

----------------------------------------------------------------------------
(* The probe scheduler: startProbeExecution, addProbe and their executeProbe *)

\* Map.prototype.set
MapSet(map, key, value) ==
    [k \in DOMAIN map \cup {key} |-> IF k = key THEN value ELSE map[k]]

\* the catch clause as it would be if it rethrew what is no Error
CatchesErrorsOnly(error) == error.isError

\* `catch (error)` has no filter: whatever was thrown is caught
Catches(error) == TRUE

\* the result the catch block stores
FailureResult(error) ==
    [status |-> "critical",
     message |-> <<"Probe execution failed: ",
                   IF error.isError THEN error.text ELSE "Unknown error">>]

\* the scheduler's part of the state
Scheduler ==
    [probeResults |-> probeResults, pending |-> pending,
     microtasks |-> microtasks, writer |-> writer, uncaught |-> uncaught]

NewScheduler ==
    [probeResults |-> <<>>, pending |-> <<>>, microtasks |-> <<>>,
     writer |-> <<>>, uncaught |-> 0]

\* s without its k-th element
RemoveAt(s, k) == SubSeq(s, 1, k - 1) \o SubSeq(s, k + 1, Len(s))

\* History kept with a suspended run: a run of the same probe that started
\* after it has finished before it.  A run finishes ahead of the first
\* `upto` suspended runs, which are the ones that started before it.
Overtake(runs, probe, upto) ==
    [j \in DOMAIN runs |->
        IF j <= upto /\ runs[j].probe = probe
            THEN [runs[j] EXCEPT !.overtaken = TRUE] ELSE runs[j]]

\* History kept with a table entry: the probe whose run wrote it, what the
\* run failed with (<<>> if it did not fail), whether a run of a probe of
\* another name, started before it, was still unfinished then, and whether
\* a run of the same probe that started later had finished before it.
WriterOf(st, run) ==
    [probe |-> run.probe,
     cause |-> IF run.outcome.type = "resolve" THEN <<>> ELSE <<run.outcome.error>>,
     overtook |-> \E k \in DOMAIN st.pending : st.pending[k].name # run.name,
     late |-> run.overtaken]

\* executeProbe as it would be if a run overtaken by a later run of its
\* probe did not store its result
SettleInStartOrder(st, run) ==
    IF run.overtaken THEN st
    ELSE IF run.outcome.type = "resolve"
        THEN [st EXCEPT !.probeResults = MapSet(@, run.name, run.outcome.value),
                        !.writer = MapSet(@, run.name, WriterOf(st, run))]
        ELSE [st EXCEPT !.probeResults =
                            MapSet(@, run.name, FailureResult(run.outcome.error)),
                        !.writer = MapSet(@, run.name, WriterOf(st, run))]

\* executeProbe after `await probe.check()` settles, or after check() threw:
\* the result, or the synthetic critical result, is stored under probe.name
Settle(st, run) ==
    IF run.outcome.type = "resolve"
        THEN [st EXCEPT !.probeResults = MapSet(@, run.name, run.outcome.value),
                        !.writer = MapSet(@, run.name, WriterOf(st, run))]
    ELSE IF Catches(run.outcome.error)
        THEN [st EXCEPT !.probeResults =
                            MapSet(@, run.name, FailureResult(run.outcome.error)),
                        !.writer = MapSet(@, run.name, WriterOf(st, run))]
        ELSE [st EXCEPT !.uncaught = @ + 1]

\* executeProbe as it would be if it stored a provisional result under the
\* name of the probe before calling check()
executeProbeMarking(st, i, probe, outcome) ==
    LET run == [probe |-> i, name |-> probe.name, outcome |-> outcome,
                overtaken |-> FALSE]
        marked == [st EXCEPT !.probeResults =
                       MapSet(@, probe.name,
                              [status |-> "warning", message |-> <<"running">>])]
    IN  IF outcome.type = "throw"
            THEN Settle([marked EXCEPT !.pending = Overtake(@, i, Len(@))], run)
        ELSE IF outcome.settled
            THEN [marked EXCEPT !.microtasks = Append(@, run)]
            ELSE [marked EXCEPT !.pending = Append(@, run)]

\* executeProbe() up to its await: check() is called; if it throws, the catch
\* block runs at once; otherwise the call is suspended on the promise, its
\* continuation queued as a microtask when the promise is settled already
executeProbe(st, i, probe, outcome) ==
    LET run == [probe |-> i, name |-> probe.name, outcome |-> outcome,
                overtaken |-> FALSE]
    IN  IF outcome.type = "throw"
            THEN Settle([st EXCEPT !.pending = Overtake(@, i, Len(@))], run)
        ELSE IF outcome.settled
            THEN [st EXCEPT !.microtasks = Append(@, run)]
            ELSE [st EXCEPT !.pending = Append(@, run)]

\* the microtask queue is run until empty, first in first out, when the
\* running callback returns
RECURSIVE Drain(_)
Drain(st) ==
    IF st.microtasks = <<>> THEN st
    ELSE LET run == Head(st.microtasks)
         IN  Drain(Settle([st EXCEPT !.microtasks = Tail(@),
                                     !.pending = Overtake(@, run.probe, Len(@))],
                          run))

\* startProbeExecution(): customProbes.forEach, each probe executed once at
\* once; the set of scheduler states this can end in
RECURSIVE startProbeExecution(_, _, _)
startProbeExecution(st, probes, i) ==
    IF i > Len(probes) THEN {st}
    ELSE UNION {startProbeExecution(executeProbe(st, i, probes[i], o), probes, i + 1) :
                    o \in Outcomes(probes[i].check)}

SetScheduler(st) ==
    /\ probeResults' = st.probeResults
    /\ pending' = st.pending
    /\ microtasks' = st.microtasks
    /\ writer' = st.writer
    /\ uncaught' = st.uncaught

\* probe.interval || 60000: an interval of 0 is falsy
IntervalOf(probe) ==
    IF probe.interval = <<>> \/ probe.interval[1] = 0
        THEN DefaultInterval ELSE probe.interval[1]

\* executeProbe() once as it would be without the immediate execution: only
\* the timer is armed
ArmOnly(probe) ==
    [since |-> now, due |-> now + IntervalOf(probe), started |-> 0]

\* executeProbe(); setInterval(executeProbe, interval): the first execution
\* has started and the timer is due one interval from now
Arm(probe) ==
    [since |-> now, due |-> now + IntervalOf(probe), started |-> 1]

\* the timers startProbeExecution() arms, one per probe
ArmAll(probes, clocked) ==
    IF clocked THEN [i \in DOMAIN probes |-> Arm(probes[i])] ELSE <<>>

\* the timer of the i-th probe has expired
Due(i) == IF timers = <<>> THEN TRUE ELSE now >= timers[i].due

\* an interval timer is armed again when its callback starts
Rearm(i) ==
    IF timers = <<>> THEN <<>>
    ELSE [timers EXCEPT ![i] = [since |-> @.since,
                                due |-> now + IntervalOf(customProbes[i]),
                                started |-> @.started + 1]]

\* the timer callback as it would be if registering a name again stopped
\* the timers of the probes registered under it before
TimerFireLatestOnly(i) ==
    /\ ~inTick
    /\ i \in DOMAIN customProbes
    /\ Due(i)
    /\ \A j \in DOMAIN customProbes :
           j > i => customProbes[j].name # customProbes[i].name
    /\ \E o \in Outcomes(customProbes[i].check) :
           SetScheduler(Drain(executeProbe(Scheduler, i, customProbes[i], o)))
    /\ timerRuns' = Min(timerRuns + 1, RunsCounted)
    /\ fired' = i
    /\ timers' = Rearm(i)
    /\ UNCHANGED <<alertThresholds, customProbes, inTick>>
    /\ UNCHANGED <<now, envVars, trackerVars, historyVars, httpVars>>

\* the timer callback as it would be if probes were run one at a time
TimerFireSerial(i) ==
    /\ ~inTick
    /\ i \in DOMAIN customProbes
    /\ Due(i)
    /\ \A k \in DOMAIN pending : pending[k].probe = i
    /\ \E o \in Outcomes(customProbes[i].check) :
           SetScheduler(Drain(executeProbe(Scheduler, i, customProbes[i], o)))
    /\ timerRuns' = Min(timerRuns + 1, RunsCounted)
    /\ fired' = i
    /\ timers' = Rearm(i)
    /\ UNCHANGED <<alertThresholds, customProbes, inTick>>
    /\ UNCHANGED <<now, envVars, trackerVars, historyVars, httpVars>>

\* setInterval(executeProbe, interval) fires for the i-th registered probe:
\* the callback and the microtasks it leaves
TimerFire(i) ==
    /\ ~inTick
    /\ i \in DOMAIN customProbes
    /\ Due(i)
    /\ \E o \in Outcomes(customProbes[i].check) :
           SetScheduler(Drain(executeProbe(Scheduler, i, customProbes[i], o)))
    /\ timerRuns' = Min(timerRuns + 1, RunsCounted)
    /\ fired' = i
    /\ timers' = Rearm(i)
    /\ UNCHANGED <<alertThresholds, customProbes, inTick>>
    /\ UNCHANGED <<now, envVars, trackerVars, historyVars, httpVars>>

\* the settling of a promise as it would be if the continuation of
\* executeProbe were dropped: the run ends and stores nothing
CompleteRunDiscarding(k) ==
    /\ ~inTick
    /\ k \in DOMAIN pending
    /\ pending[k].outcome.type \in {"resolve", "reject"}
    /\ pending' = RemoveAt(pending, k)
    /\ UNCHANGED <<probeResults, microtasks, writer, uncaught>>
    /\ UNCHANGED <<alertThresholds, customProbes, inTick, timerRuns, fired,
                   timers>>
    /\ UNCHANGED <<now, envVars, trackerVars, historyVars, httpVars>>

\* the promise of the k-th suspended executeProbe settles and its
\* continuation runs
CompleteRun(k) ==
    /\ ~inTick
    /\ k \in DOMAIN pending
    /\ pending[k].outcome.type \in {"resolve", "reject"}
    /\ SetScheduler(Drain(Settle(
           [Scheduler EXCEPT
                !.pending = RemoveAt(Overtake(@, pending[k].probe, k - 1), k)],
           pending[k])))
    /\ UNCHANGED <<alertThresholds, customProbes, inTick, timerRuns, fired,
                   timers>>
    /\ UNCHANGED <<now, envVars, trackerVars, historyVars, httpVars>>

\* addProbe(probe), called by code of the host: pushed, executed at once,
\* timer armed
AddProbe(probe) ==
    /\ inTick
    /\ customProbes' = Append(customProbes, probe)
    /\ \E o \in Outcomes(probe.check) :
           SetScheduler(executeProbe(Scheduler, Len(customProbes) + 1, probe, o))
    /\ timers' = IF timers = <<>> THEN <<>> ELSE Append(timers, Arm(probe))
    /\ UNCHANGED <<alertThresholds, inTick, timerRuns, fired>>
    /\ UNCHANGED <<now, envVars, trackerVars, historyVars, httpVars>>

\* a callback of the host starts to run
HostCallback ==
    /\ ~inTick
    /\ inTick' = TRUE
    /\ UNCHANGED <<alertThresholds, customProbes, probeResults, pending,
                   microtasks, timerRuns, fired, timers, writer, uncaught>>
    /\ UNCHANGED <<now, envVars, trackerVars, historyVars, httpVars>>

\* the host's code returns to the event loop
HostReturns ==
    /\ inTick
    /\ inTick' = FALSE
    /\ SetScheduler(Drain(Scheduler))
    /\ UNCHANGED <<alertThresholds, customProbes, timerRuns, fired, timers>>
    /\ UNCHANGED <<now, envVars, trackerVars, historyVars, httpVars>>

\* getProbeResults(): Object.fromEntries(this.probeResults), a copy
getProbeResults == probeResults

GetProbeResults ==
    /\ DOMAIN getProbeResults = DOMAIN probeResults
    /\ UNCHANGED vars

----------------------------------------------------------------------------
(* The health endpoint *)

\* what reading a property of undefined throws
TypeError == "TypeError"

\* getOverallStatus as it would be if it looked for "warning" first
getOverallStatusWarningFirst(probes) ==
    LET statuses == {StatusOf(probes[name]) : name \in DOMAIN probes}
    IN  IF \E name \in DOMAIN probes : probes[name] = Undefined THEN TypeError
        ELSE IF "warning" \in statuses THEN "warning"
        ELSE IF "critical" \in statuses THEN "critical"
        ELSE "healthy"

\* getOverallStatus(probes): Object.values(probes).map(probe => probe.status)
\* throws on an undefined value; then the two includes() tests
getOverallStatus(probes) ==
    LET statuses == {StatusOf(probes[name]) : name \in DOMAIN probes}
    IN  IF \E name \in DOMAIN probes : probes[name] = Undefined THEN TypeError
        ELSE IF "critical" \in statuses THEN "critical"
        ELSE IF "warning" \in statuses THEN "warning"
        ELSE "healthy"

\* process.env.npm_package_version || "1.0.0"
Version == "1.0.0"

\* the handler as it would be if only a critical status gave 503
healthCheckHandlerLenient ==
    LET metrics == collectMetrics
        probes == probeResults
        overallStatus == getOverallStatus(probes)
    IN  IF overallStatus = TypeError
            THEN [threw |-> TRUE]
            ELSE [threw |-> FALSE,
                  code |-> IF overallStatus = "critical" THEN 503 ELSE 200,
                  body |-> [status |-> overallStatus,
                            timestamp |-> metrics.timestamp,
                            uptime |-> metrics.uptime,
                            metrics |-> metrics,
                            probes |-> probes,
                            version |-> Version]]

\* the handler as it would be if it derived the status from the built-in
\* probes alone
healthCheckHandlerBuiltInOnly ==
    LET metrics == collectMetrics
        probes == probeResults
        builtIn == initializeBuiltInProbes(alertThresholds, <<>>)
        names == {builtIn[i].name : i \in DOMAIN builtIn} \cap DOMAIN probes
        overallStatus == getOverallStatus([name \in names |-> probes[name]])
    IN  IF collectMetricsThrows \/ overallStatus = TypeError
            THEN [threw |-> TRUE]
            ELSE [threw |-> FALSE,
                  code |-> IF overallStatus = "healthy" THEN 200 ELSE 503,
                  body |-> [status |-> overallStatus,
                            timestamp |-> metrics.timestamp,
                            uptime |-> metrics.uptime,
                            metrics |-> metrics,
                            probes |-> probes,
                            version |-> Version]]

\* the handler healthCheckHandler() returns, run on a request
healthCheckHandler ==
    LET metrics == collectMetrics
        probes == probeResults
        overallStatus == getOverallStatus(probes)
    IN  IF collectMetricsThrows \/ overallStatus = TypeError
            THEN [threw |-> TRUE]
            ELSE [threw |-> FALSE,
                  code |-> IF overallStatus = "healthy" THEN 200 ELSE 503,
                  body |-> [status |-> overallStatus,
                            timestamp |-> metrics.timestamp,
                            uptime |-> metrics.uptime,
                            metrics |-> metrics,
                            probes |-> probes,
                            version |-> Version]]

\* the health request as it would be if it kept its answer in the table
HealthRequestCaching ==
    /\ healthResponse' = <<healthCheckHandler>>
    /\ probeResults' =
           MapSet(probeResults, "overall",
                  [status |-> getOverallStatus(probeResults)])
    /\ UNCHANGED <<alertThresholds, customProbes, pending, microtasks,
                   timerRuns, fired, timers, inTick, writer, uncaught>>
    /\ UNCHANGED <<now, envVars, trackerVars, historyVars,
                   historyQuery, historyResponse, middlewareVars, singletonVars>>

\* GET <healthPath>
HealthRequest ==
    /\ healthResponse' = <<healthCheckHandler>>
    /\ UNCHANGED <<now, envVars, probeVars, trackerVars, historyVars,
                   historyQuery, historyResponse, middlewareVars, singletonVars>>

\* the body has left the process
HealthSent ==
    /\ healthResponse # <<>>
    /\ healthResponse' = <<>>
    /\ UNCHANGED <<now, envVars, probeVars, trackerVars, historyVars,
                   historyQuery, historyResponse, middlewareVars, singletonVars>>

----------------------------------------------------------------------------
(* The request tracking middleware *)

\* requestTrackingMiddleware(): which of its two functions it returns
requestTrackingMiddleware ==
    IF ~enableRequestTracking THEN "next" ELSE "track"

\* the finish listener as it would be if it did not look at
\* config.enableErrorTracking
ResponseFinishesAlwaysRecording(k, statusCode) ==
    LET res == inFlight[k]
    IN  /\ inFlight' = RemoveAt(inFlight, k)
        /\ served' = Append(served, [arrived |-> res.arrived, finished |-> now,
                                     statusCode |-> statusCode])
        /\ IF res.listeners = <<>>
              THEN UNCHANGED trackerVars
              ELSE LET responseTime == now - res.listeners[1].startTime
                       isError == statusCode >= 400
                   IN  /\ activeRequests' = activeRequests - 1
                       /\ totalResponseTime' = totalResponseTime + responseTime
                       /\ requestTimes' =
                              PushBounded(requestTimes, responseTime, WindowCapacity)
                       /\ nEnd' = nEnd + 1
                       /\ allRequestTimes' = Append(allRequestTimes, responseTime)
                       /\ errors' = IF isError THEN errors + 1 ELSE errors
                       /\ errorTimes' =
                              IF isError
                                  THEN PushBounded(errorTimes, now, WindowCapacity)
                                  ELSE errorTimes
                       /\ allErrorTimes' =
                              IF isError THEN Append(allErrorTimes, now)
                                         ELSE allErrorTimes
                       /\ UNCHANGED <<totalRequests, nStart>>
        /\ UNCHANGED <<now, envVars, probeVars, historyVars, healthResponse,
                       historyQuery, historyResponse, enableRequestTracking,
                       enableErrorTracking, singletonVars>>

\* a request reaches the middleware: the function requestTrackingMiddleware()
\* returned runs and calls next().  The tracking one takes startTime, calls
\* startRequest() and puts a listener on the finish event of the response;
\* the request id is kept in the listener and never read.
RequestArrives ==
    /\ IF requestTrackingMiddleware = "next"
          THEN /\ inFlight' = Append(inFlight, [arrived |-> now, listeners |-> <<>>])
               /\ UNCHANGED trackerVars
          ELSE /\ inFlight' = Append(inFlight,
                                     [arrived |-> now,
                                      listeners |-> <<[startTime |-> now]>>])
               /\ totalRequests' = totalRequests + 1
               /\ activeRequests' = activeRequests + 1
               /\ nStart' = nStart + 1
               /\ UNCHANGED <<totalResponseTime, errors, requestTimes, errorTimes,
                              nEnd, allRequestTimes, allErrorTimes>>
    /\ UNCHANGED <<now, envVars, probeVars, historyVars, healthResponse,
                   historyQuery, historyResponse, enableRequestTracking,
                   enableErrorTracking, served, singletonVars>>

\* the k-th open response finishes with statusCode: its finish listeners run.
\* The listener of the middleware calls endRequest(requestId, startTime) and,
\* if statusCode >= 400 and config.enableErrorTracking, recordError().
ResponseFinishes(k, statusCode) ==
    LET res == inFlight[k]
    IN  /\ inFlight' = RemoveAt(inFlight, k)
        /\ served' = Append(served, [arrived |-> res.arrived, finished |-> now,
                                     statusCode |-> statusCode])
        /\ IF res.listeners = <<>>
              THEN UNCHANGED trackerVars
              ELSE LET responseTime == now - res.listeners[1].startTime
                       isError == statusCode >= 400 /\ enableErrorTracking
                   IN  /\ activeRequests' = activeRequests - 1
                       /\ totalResponseTime' = totalResponseTime + responseTime
                       /\ requestTimes' =
                              PushBounded(requestTimes, responseTime, WindowCapacity)
                       /\ nEnd' = nEnd + 1
                       /\ allRequestTimes' = Append(allRequestTimes, responseTime)
                       /\ errors' = IF isError THEN errors + 1 ELSE errors
                       /\ errorTimes' =
                              IF isError
                                  THEN PushBounded(errorTimes, now, WindowCapacity)
                                  ELSE errorTimes
                       /\ allErrorTimes' =
                              IF isError THEN Append(allErrorTimes, now)
                                         ELSE allErrorTimes
                       /\ UNCHANGED <<totalRequests, nStart>>
        /\ UNCHANGED <<now, envVars, probeVars, historyVars, healthResponse,
                       historyQuery, historyResponse, enableRequestTracking,
                       enableErrorTracking, singletonVars>>

----------------------------------------------------------------------------
(* MonitoringService.getInstance *)

\* the serial number of the object `new MonitoringService` would make
NextSerial == IF instance = <<>> THEN 1 ELSE instance[1] + 1

\* new MonitoringService(config): the fields of the new object are set, the
\* built-in and configured probes registered and executed once each, the
\* timers armed.  The request tracker is a singleton of its own and is taken
\* as it is.
Construct(config) ==
    /\ instance' = <<NextSerial>>
    /\ alertThresholds' = config.alertThresholds
    /\ enableRequestTracking' = config.enableRequestTracking
    /\ enableErrorTracking' = config.enableErrorTracking
    /\ customProbes' =
           initializeBuiltInProbes(config.alertThresholds, config.customProbes)
    /\ metricsHistory' = <<>>
    /\ lastCollect' = now
    /\ \E st \in startProbeExecution(NewScheduler, customProbes', 1) :
           SetScheduler(st)
    /\ timers' = ArmAll(customProbes', TRUE)
    /\ UNCHANGED <<now, envVars, trackerVars, collected, timerRuns, fired, inTick,
                   healthResponse, historyQuery, historyResponse, inFlight,
                   served>>

\* getInstance as it would be without the test of MonitoringService.instance
GetInstanceRebuilding(config) ==
    /\ inTick
    /\ Construct(config)
    /\ returned' = Append(returned, instance'[1])

\* getInstance(config), called by code of the host
GetInstance(config) ==
    /\ inTick
    /\ IF instance = <<>>
          THEN Construct(config)
          ELSE UNCHANGED <<now, envVars, probeVars, trackerVars, historyVars,
                           healthResponse, historyQuery, historyResponse,
                           middlewareVars, instance>>
    /\ returned' = Append(returned, instance'[1])

----------------------------------------------------------------------------
(* Specifications *)

\* The state the constructor leaves, in the callback of the host that called
\* getInstance: counters at zero, no history, the built-in and configured
\* probes registered and each executed once.
ConstructedWith(thresholds, configProbes, memReadings, cpuReadings, clocked, rt, et) ==
    /\ now = startTime
    /\ enableRequestTracking \in rt
    /\ enableErrorTracking \in et
    /\ inFlight = <<>>
    /\ served = <<>>
    /\ instance = <<1>>
    /\ returned = <<1>>
    /\ memPercentage \in memReadings
    /\ cpuUsage \in cpuReadings
    /\ memoryReadFails = FALSE
    /\ totalRequests = 0
    /\ activeRequests = 0
    /\ totalResponseTime = 0
    /\ errors = 0
    /\ requestTimes = <<>>
    /\ errorTimes = <<>>
    /\ metricsHistory = <<>>
    /\ lastCollect = startTime
    /\ alertThresholds \in thresholds
    /\ customProbes \in
           {initializeBuiltInProbes(alertThresholds, c) : c \in configProbes}
    /\ \E st \in startProbeExecution(NewScheduler, customProbes, 1) :
           /\ probeResults = st.probeResults
           /\ pending = st.pending
           /\ microtasks = st.microtasks
           /\ timerRuns = 0
           /\ fired = 0
           /\ timers = ArmAll(customProbes, clocked)
           /\ writer = st.writer
           /\ uncaught = st.uncaught
    /\ inTick = TRUE
    /\ healthResponse = <<>>
    /\ historyQuery = Missing
    /\ historyResponse = <<>>
    /\ nStart = 0
    /\ nEnd = 0
    /\ allRequestTimes = <<>>
    /\ allErrorTimes = <<>>
    /\ collected = <<>>

\* request tracking and error tracking left at their defaults
Constructed(thresholds, configProbes, memReadings, cpuReadings, clocked) ==
    ConstructedWith(thresholds, configProbes, memReadings, cpuReadings, clocked,
                    {TRUE}, {TRUE})

NoThresholds == [memoryUsage |-> <<>>, cpuUsage |-> <<>>]

\* default configuration, a quiet machine
Init == Constructed({NoThresholds}, {<<>>}, {50}, {0}, FALSE)

\* The request tracker under arbitrary calls of the host, with snapshots
NextTracker ==
    \/ (nStart < MaxCalls /\ StartRequest)
    \/ (nEnd < MaxCalls /\ \E reqStart \in {startTime, now} : EndRequest(reqStart))
    \/ (errors < MaxErrors /\ RecordError)
    \/ (now < MaxSteps * metricsInterval /\ AdvanceClock(metricsInterval))
    \/ CollectionTick
    \/ GetCurrentMetrics

SpecTracker == Init /\ [][NextTracker]_vars

\* The metrics history over more ticks than it can hold; the collection
\* timer fires as soon as its interval has elapsed
\* A response is looked at right after its handler has run: nothing else
\* runs between the handler's slice and its res.json().
NextRetention ==
    \/ /\ historyResponse = <<>>
       /\ now < lastCollect + metricsInterval
       /\ AdvanceClock(metricsInterval)
    \/ /\ historyResponse = <<>>
       /\ Len(collected) < HistoryCapacity + MaxOverflow
       /\ CollectionTick
    \/ /\ historyResponse = <<>>
       /\ \E q \in Queries : MetricsHistoryRequest(q)
    \/ ResponseSent

SpecRetention == Init /\ [][NextRetention]_vars

----------------------------------------------------------------------------
(* Properties *)

\* the last k elements of s
LastN(s, k) == SubSeq(s, Len(s) - Min(k, Len(s)) + 1, Len(s))

\* C1: after any sequence of startRequest and endRequest calls, the active
\* count getMetrics reports is the number of startRequest calls minus the
\* number of endRequest calls.
C1_ActiveIsStartsMinusEnds == getMetrics.active = nStart - nEnd

\* two requests started, one of them ended
C1_Witness == nStart = 2 /\ nEnd = 1 /\ getMetrics.active = 1

\* C2: the active request count is never negative, in the tracker, in a fresh
\* snapshot and in every snapshot of the history, whatever startRequest and
\* endRequest calls the host makes.
C2_ActiveNeverNegative ==
    /\ activeRequests >= 0
    /\ collectMetrics.requests.active >= 0
    /\ \A i \in DOMAIN metricsHistory : metricsHistory[i].requests.active >= 0

\* C3: the metrics history never holds more than 100 snapshots.
C3_HistoryBounded == Len(metricsHistory) <= HistoryCapacity

\* the history is full and a tick has evicted from it
C3_Witness ==
    Len(collected) > HistoryCapacity /\ Len(metricsHistory) = HistoryCapacity

\* C4: after n collection ticks the history holds exactly the min(n, 100)
\* snapshots collected last, oldest first, with non-decreasing timestamps; a
\* tick on a full history therefore evicts the single oldest snapshot and
\* leaves the others as they were.
C4_HistoryHoldsMostRecent ==
    /\ metricsHistory = LastN(collected, HistoryCapacity)
    /\ \A i \in 1..(Len(metricsHistory) - 1) :
           metricsHistory[i].timestamp <= metricsHistory[i + 1].timestamp

\* two ticks on a full history: the two oldest snapshots are gone
C4_Witness ==
    /\ Len(collected) = HistoryCapacity + 2
    /\ Head(metricsHistory) = collected[3]
    /\ Last(metricsHistory) = Last(collected)

\* a decimal integer literal: an optional minus sign, then decimal digits only
IsDecimalLiteral(str) ==
    LET digits == IF str # <<>> /\ Head(str) = "-" THEN Tail(str) ELSE str
    IN  digits # <<>> /\ \A i \in DOMAIN digits : digits[i] \in {"0", "5"}

\* the integer a decimal literal denotes
LiteralValue(str) ==
    IF Head(str) = "-" THEN 0 - DigitsValue(Tail(str), 10) ELSE DigitsValue(str, 10)

\* a limit the default applies to: absent, without any digit in it, or a
\* decimal literal that is zero or negative
InvalidLimit(q) ==
    \/ ~q.present
    \/ \A i \in DOMAIN q.text : q.text[i] \notin {"0", "5"}
    \/ IsDecimalLiteral(q.text) /\ LiteralValue(q.text) <= 0

\* what the endpoint sends for limit = 50
DefaultResponse ==
    LET metrics == LastN(metricsHistory, DefaultLimit)
    IN  [metrics |-> metrics,
         count |-> Len(metrics),
         latest |-> IF metrics = <<>> THEN <<>> ELSE <<Last(metrics)>>]

\* C10: a metrics-history request whose limit is 0, negative, missing or
\* non-numeric is answered exactly as one with limit = 50: with the most
\* recent min(50, history length) snapshots.
C10_InvalidLimitIsDefault ==
    (historyResponse # <<>> /\ InvalidLimit(historyQuery))
        => historyResponse[1] = DefaultResponse

\* The probe scheduler and the health endpoint: timers fire in any order,
\* suspended runs settle in any order, the host adds probes.  The
\* configuration pre-registers nothing, a probe that always fails, or a probe
\* that is slow.
InitProbes ==
    Constructed({NoThresholds}, {<<>>, <<FailingProbe>>, <<SlowProbe>>},
                {50}, {0}, FALSE)

NumBuiltIn == Len(initializeBuiltInProbes(NoThresholds, <<>>))

NextProbes ==
    \/ /\ healthResponse = <<>>
       /\ timerRuns < MaxRuns
       /\ \E i \in DOMAIN customProbes : TimerFire(i)
    \/ /\ healthResponse = <<>>
       /\ \E k \in DOMAIN pending : CompleteRun(k)
    \/ /\ healthResponse = <<>>
       /\ Len(customProbes) < NumBuiltIn + MaxCustom
       /\ \E probe \in {FailingProbe, SlowProbe} : AddProbe(probe)
    \/ /\ healthResponse = <<>>
       /\ HostCallback
    \/ /\ healthResponse = <<>>
       /\ HostReturns
    \/ /\ healthResponse = <<>>
       /\ GetProbeResults
    \/ /\ healthResponse = <<>>
       /\ HealthRequest
    \/ HealthSent

SpecProbes == InitProbes /\ [][NextProbes]_vars

\* The timers of the built-in probes beside one probe of the host that is
\* slow or hangs, or one that fails, and the readers of the table
InitIsolation ==
    Constructed({NoThresholds}, {<<FailingProbe>>, <<SlowProbe>>}, {50}, {0}, FALSE)

NextIsolation ==
    \/ /\ healthResponse = <<>>
       /\ timerRuns < MaxRuns
       /\ \E i \in DOMAIN customProbes : TimerFire(i)
    \/ /\ healthResponse = <<>>
       /\ \E k \in DOMAIN pending : CompleteRun(k)
    \/ (healthResponse = <<>> /\ HostReturns)
    \/ (healthResponse = <<>> /\ GetProbeResults)
    \/ (healthResponse = <<>> /\ HealthRequest)
    \/ HealthSent

SpecIsolation == InitIsolation /\ [][NextIsolation]_vars

\* Snapshot collection on a metrics source whose memory read may fail at
\* any time; the collection timer fires as soon as its interval has elapsed
NextSampling ==
    \/ /\ now < lastCollect + metricsInterval
       /\ now < MaxSamples * metricsInterval
       /\ AdvanceClock(metricsInterval)
    \/ CollectionTick
    \/ SourceChanges
    \/ GetCurrentMetrics

SpecSampling == Init /\ [][NextSampling]_vars

\* Every operation of the service side by side: request tracking, the
\* collection timer, both endpoints, the probe timers, addProbe and the
\* accessors
Quiet == healthResponse = <<>> /\ historyResponse = <<>>

\* the calls and timer callbacks that have changed the state so far
Operations ==
    nStart + nEnd + errors + timerRuns + Len(collected)
        + (Len(customProbes) - NumBuiltIn)

Busy == Quiet /\ Operations < MaxOperations

NextService ==
    \/ (Busy /\ StartRequest)
    \/ (Busy /\ EndRequest(startTime))
    \/ (Busy /\ RecordError)
    \/ (Busy /\ now < lastCollect + metricsInterval /\ AdvanceClock(metricsInterval))
    \/ (Quiet /\ CollectionTick)
    \/ (Quiet /\ GetCurrentMetrics)
    \/ (Quiet /\ GetProbeResults)
    \/ (Quiet /\ HealthRequest)
    \/ HealthSent
    \/ (Quiet /\ \E q \in {Missing, Given(<<"5">>)} : MetricsHistoryRequest(q))
    \/ ResponseSent
    \/ (Busy /\ \E i \in DOMAIN customProbes : TimerFire(i))
    \/ (Quiet /\ \E k \in DOMAIN pending : CompleteRun(k))
    \/ (Busy /\ \E probe \in {SteadyProbe, SlowProbe} : AddProbe(probe))
    \/ (Quiet /\ HostCallback)
    \/ (Quiet /\ HostReturns)

SpecService == Init /\ [][NextService]_vars

\* A name registered more than once: the configuration registers a probe
\* that returns healthy, the host adds a failing probe of the same name
InitDuplicates == Constructed({NoThresholds}, {<<SteadyProbe>>}, {50}, {0}, FALSE)

NextDuplicates ==
    \/ /\ Len(customProbes) < NumBuiltIn + 1 + MaxCustom
       /\ AddProbe(ShadowProbe)
    \/ (timerRuns < MaxRuns /\ \E i \in DOMAIN customProbes : TimerFire(i))
    \/ (\E k \in DOMAIN pending : CompleteRun(k))
    \/ HostCallback
    \/ HostReturns
    \/ GetProbeResults

SpecDuplicates == InitDuplicates /\ [][NextDuplicates]_vars

\* The probe timers against the clock.  The clock moves in steps of a sixth
\* of the default interval; a timer callback runs at the instant its timer
\* is due, before the clock moves on, and callbacks take no time.
ClockStep == DefaultInterval \div 6

InitSchedule ==
    Constructed({NoThresholds}, {<<>>, <<QuickProbe>>}, {50}, {0}, TRUE)

NextSchedule ==
    \/ /\ ~inTick
       /\ now < MaxClockSteps * ClockStep
       /\ \A i \in DOMAIN timers : ~Due(i)
       /\ AdvanceClock(ClockStep)
    \/ \E i \in DOMAIN customProbes : TimerFire(i)
    \/ /\ Len(customProbes) < NumBuiltIn + MaxCustom
       /\ \E probe \in {SteadyProbe, QuickProbe} : AddProbe(probe)
    \/ HostCallback
    \/ HostReturns

SpecSchedule == InitSchedule /\ [][NextSchedule]_vars

\* The two windows of the request tracker filled beyond their capacity.  The
\* clock moves on by a millisecond after every recordError, so that no two
\* error times are equal, and the k-th request to end has taken k - 1
\* milliseconds, so that no two latencies are equal.
NextWindows ==
    \/ /\ nEnd < WindowCapacity + MaxOverflow
       /\ nEnd <= now
       /\ EndRequest(now - nEnd)
    \/ /\ errors < WindowCapacity + MaxOverflow
       /\ now = errors
       /\ RecordError
    \/ /\ now < errors
       /\ AdvanceClock(1)

SpecWindows == Init /\ [][NextWindows]_vars

\* Requests through the middleware, under each setting of the two tracking
\* switches; the clock moves between arrivals and finishes, responses finish
\* in any order with status codes on both sides of 400
StatusCodes == {200, 399, 400, 500}

InitMiddleware ==
    ConstructedWith({NoThresholds}, {<<>>}, {50}, {0}, FALSE, BOOLEAN, BOOLEAN)

NextMiddleware ==
    \/ (Len(inFlight) + Len(served) < MaxRequests /\ RequestArrives)
    \/ \E k \in DOMAIN inFlight : \E statusCode \in StatusCodes :
           ResponseFinishes(k, statusCode)
    \/ (now < MaxRequests + 1 /\ AdvanceClock(1))

SpecMiddleware == InitMiddleware /\ [][NextMiddleware]_vars

\* Health requests among probe runs: timers fire and suspended checks settle
\* before a request, and while its response is on its way out
InitHealth ==
    Constructed({NoThresholds}, {<<SlowProbe>>, <<FailingProbe>>}, {50}, {0}, FALSE)

NextHealth ==
    \/ (healthResponse = <<>> /\ ~inTick /\ HealthRequest)
    \/ HealthSent
    \/ (timerRuns < MaxRuns /\ \E i \in DOMAIN customProbes : TimerFire(i))
    \/ (\E k \in DOMAIN pending : CompleteRun(k))
    \/ HostReturns

SpecHealth == InitHealth /\ [][NextHealth]_vars

\* A probe of the host whose check never settles, or one that is slow and may
\* hang on any run, beside the built-in probes; the handler of the health
\* endpoint may be called at any time, by the code that constructs the
\* service as well, before any continuation has run
InitHung ==
    Constructed({NoThresholds}, {<<HungProbe>>, <<SlowProbe>>}, {50}, {0}, FALSE)

NextHung ==
    \/ (healthResponse = <<>> /\ HealthRequest)
    \/ HealthSent
    \/ (timerRuns < MaxRuns + 1 /\ \E i \in DOMAIN customProbes : TimerFire(i))
    \/ (\E k \in DOMAIN pending : CompleteRun(k))
    \/ HostReturns

SpecHung == InitHung /\ [][NextHung]_vars

\* The module is loaded and getInstance has not been called: there is no
\* instance, no probe, no timer, and code of the host is running
Loaded ==
    /\ now = startTime
    /\ memPercentage = 50
    /\ cpuUsage = 0
    /\ memoryReadFails = FALSE
    /\ totalRequests = 0
    /\ activeRequests = 0
    /\ totalResponseTime = 0
    /\ errors = 0
    /\ requestTimes = <<>>
    /\ errorTimes = <<>>
    /\ metricsHistory = <<>>
    /\ lastCollect = startTime
    /\ alertThresholds = NoThresholds
    /\ customProbes = <<>>
    /\ probeResults = <<>>
    /\ pending = <<>>
    /\ microtasks = <<>>
    /\ timerRuns = 0
    /\ fired = 0
    /\ timers = <<>>
    /\ inTick = TRUE
    /\ writer = <<>>
    /\ uncaught = 0
    /\ healthResponse = <<>>
    /\ historyQuery = Missing
    /\ historyResponse = <<>>
    /\ nStart = 0
    /\ nEnd = 0
    /\ collected = <<>>
    /\ allRequestTimes = <<>>
    /\ allErrorTimes = <<>>
    /\ enableRequestTracking = TRUE
    /\ enableErrorTracking = TRUE
    /\ inFlight = <<>>
    /\ served = <<>>
    /\ instance = <<>>
    /\ returned = <<>>

\* the configurations the host passes to getInstance
Configs ==
    [alertThresholds : {NoThresholds, [memoryUsage |-> <<50>>, cpuUsage |-> <<>>]},
     customProbes : {<<>>, <<SteadyProbe>>},
     enableRequestTracking : BOOLEAN,
     enableErrorTracking : BOOLEAN]

\* getInstance called again and again, with any configuration, between
\* addProbe calls and returns to the event loop
NextSingleton ==
    \/ (Len(returned) < MaxGets /\ \E config \in Configs : GetInstance(config))
    \/ /\ instance # <<>>
       /\ Len(customProbes) < NumBuiltIn + 1 + MaxCustom
       /\ AddProbe(QuickProbe)
    \/ HostCallback
    \/ HostReturns

SpecSingleton == Loaded /\ [][NextSingleton]_vars

\* The life of a probe, without end: the host adds probes in the callback
\* that constructs the service and returns, then the timers go on firing and
\* checks that wait for I/O resolve later.  Every check settles before the
\* timer of its probe fires again, so that the executions in flight stay
\* bounded.
MaxProbes == NumBuiltIn + MaxCustom

InitLifecycle ==
    Constructed({NoThresholds}, {<<>>}, {50}, {0}, FALSE)

LifecycleTimer(i) ==
    /\ \A k \in DOMAIN pending : pending[k].probe # i
    /\ TimerFire(i)

LifecycleCompletion(i) ==
    \E k \in DOMAIN pending : pending[k].probe = i /\ CompleteRun(k)

NextLifecycle ==
    \/ /\ Len(customProbes) < MaxProbes
       /\ AddProbe(DelayedProbe)
    \/ HostReturns
    \/ \E i \in DOMAIN customProbes : LifecycleTimer(i)
    \/ \E i \in DOMAIN customProbes : LifecycleCompletion(i)

\* The event loop: the code of the host returns; a timer that stays due has
\* its callback run; a promise that will settle does settle and its
\* continuation runs.
FairLifecycle ==
    /\ WF_vars(HostReturns)
    /\ \A i \in 1..MaxProbes : WF_vars(LifecycleTimer(i))
    /\ \A i \in (NumBuiltIn + 1)..MaxProbes : WF_vars(LifecycleCompletion(i))

SpecLifecycle == InitLifecycle /\ [][NextLifecycle]_vars /\ FairLifecycle

\* The built-in probes under configured thresholds and readings of the
\* machine on both sides of every boundary.
Given1(n) == <<n>>

ThresholdConfigs ==
    {[memoryUsage |-> m, cpuUsage |-> c] :
         m \in {<<>>, Given1(80), Given1(50), Given1(0)},
         c \in {<<>>, Given1(50), Given1(0)}}

MemReadings == {0, 1, 39, 40, 41, 50, 51, 63, 64, 65, 80, 81, 85, 100}
CpuReadings == {0, 1, 3999, 4000, 4001, 5000, 5001, 6399, 6400, 6401, 8000, 8001}

InitBuiltIn ==
    Constructed(ThresholdConfigs, {<<>>}, MemReadings, CpuReadings, FALSE)

NextBuiltIn ==
    \/ (timerRuns < MaxRuns /\ \E i \in DOMAIN customProbes : TimerFire(i))
    \/ HostReturns
    \/ GetProbeResults

SpecBuiltIn == InitBuiltIn /\ [][NextBuiltIn]_vars

\* every entry of the table is a ProbeResult
WellFormed(table) ==
    \A name \in DOMAIN table :
        table[name] # Undefined /\ StatusOf(table[name]) \in Statuses

Has(table, status) == \E name \in DOMAIN table : table[name].status = status

\* C5: for every table of probe results, the empty one included, the overall
\* status is critical iff some result is critical, warning iff none is
\* critical and some is warning, healthy otherwise.
C5_OverallStatus ==
    WellFormed(probeResults) =>
        LET overall == getOverallStatus(getProbeResults)
        IN  /\ overall = "critical" <=> Has(probeResults, "critical")
            /\ overall = "warning" <=>
                   (~Has(probeResults, "critical") /\ Has(probeResults, "warning"))
            /\ overall = "healthy" <=>
                   (~Has(probeResults, "critical") /\ ~Has(probeResults, "warning"))

\* a table of at least three results in which all three statuses occur
C5_Witness ==
    /\ WellFormed(probeResults)
    /\ Cardinality(DOMAIN probeResults) >= 3
    /\ \A status \in Statuses : Has(probeResults, status)

Contains(message, text) == \E i \in DOMAIN message : message[i] = text

\* the names whose entry was written last by a run that failed, of a probe
\* whose check fails on every call
FailedEntries ==
    {name \in DOMAIN writer :
         /\ writer[name].cause # <<>>
         /\ customProbes[writer[name].probe].check.kind = "failing"}

NonBlocking ==
    /\ ~inTick =>
           /\ \A i \in DOMAIN customProbes : ENABLED TimerFire(i)
           /\ \A k \in DOMAIN pending :
                  pending[k].outcome.type # "hang" => ENABLED CompleteRun(k)
    /\ ENABLED GetProbeResults
    /\ ENABLED HealthRequest

\* an entry is written only by a run of a probe registered under its name,
\* and is never removed
WrittenByOwnProbe ==
    /\ DOMAIN probeResults \subseteq DOMAIN probeResults'
    /\ \A name \in DOMAIN probeResults' :
           (\/ name \notin DOMAIN probeResults
            \/ probeResults'[name] # probeResults[name]
            \/ writer'[name] # writer[name])
               => customProbes'[writer'[name].probe].name = name

\* C7: probes are isolated.  Whatever runs of a probe P are unfinished, slow
\* or failed, the timer of every probe can fire, every suspended run whose
\* promise settles can store its result, getProbeResults and the health
\* handler return; and the entry under a name Q changes only through a run of
\* a probe registered as Q.
C7_ProbesIsolated == []NonBlocking /\ [][WrittenByOwnProbe]_vars

\* a run of one probe hangs, and a probe of another name has since had a
\* timer run that stored its result
C7_Witness ==
    /\ timerRuns >= 1
    /\ \E k \in DOMAIN pending :
           /\ pending[k].outcome.type = "hang"
           /\ \E name \in DOMAIN writer :
                  name # pending[k].name /\ writer[name].overtook

MemoryThreshold == ThresholdOr(alertThresholds.memoryUsage)
CpuThreshold == ThresholdOr(alertThresholds.cpuUsage)

\* the boundaries of the claim for a reading u and a threshold T, both in the
\* same unit: critical above T, warning above 0.8 T up to T, healthy up to
\* 0.8 T
ThresholdRule(status, u, T) ==
    /\ status = "critical" <=> u > T
    /\ status = "warning" <=> (5 * u > 4 * T /\ u <= T)
    /\ status = "healthy" <=> 5 * u <= 4 * T
    /\ (u = T /\ T > 0) => status = "warning"
    /\ 5 * u = 4 * T => status = "healthy"

\* C8: the results of the built-in memory and CPU probes follow the
\* thresholds: critical iff the reading is above T, warning iff it is above
\* 0.8 T and at most T, healthy iff it is at most 0.8 T; a reading of exactly
\* T gives warning and one of exactly 0.8 T gives healthy.  (At T = 0 the two
\* boundaries coincide and a reading of 0 is healthy.)
C8_ThresholdBoundaries ==
    /\ "memory_usage" \in DOMAIN probeResults =>
           /\ probeResults["memory_usage"].value = memPercentage
           /\ ThresholdRule(probeResults["memory_usage"].status,
                            memPercentage, MemoryThreshold)
    /\ "cpu_usage" \in DOMAIN probeResults =>
           /\ probeResults["cpu_usage"].value = cpuUsage
           /\ ThresholdRule(probeResults["cpu_usage"].status,
                            cpuUsage, 100 * CpuThreshold)

\* the memory probe has run on a reading equal to its threshold, and the CPU
\* probe on a reading equal to 0.8 times its threshold
C8_Witness ==
    /\ {"memory_usage", "cpu_usage"} \subseteq DOMAIN probeResults
    /\ MemoryThreshold = 80 /\ memPercentage = 80
    /\ CpuThreshold = 50 /\ cpuUsage = 4000
    /\ probeResults["memory_usage"].status = "warning"
    /\ probeResults["cpu_usage"].status = "healthy"

ConfiguredAt80 ==
    /\ alertThresholds.memoryUsage = Given1(80)
    /\ "memory_usage" \in DOMAIN probeResults

\* C9 as claimed: with the memory threshold configured as 80, the memory
\* probe gives {status: critical, value: 85} at 85 percent and status healthy
\* at 65 percent.
C9_AsClaimed ==
    ConfiguredAt80 =>
        LET result == probeResults["memory_usage"]
        IN  /\ memPercentage = 85 =>
                   (result.status = "critical" /\ result.value = 85)
            /\ memPercentage = 65 => result.status = "healthy"

\* C9 as amended: at 85 percent the result is {status: critical, value: 85};
\* at 65 percent, which is above 0.8 * 80 = 64, it is warning; at 64 percent
\* it is healthy.
C9_ConfiguredThreshold ==
    ConfiguredAt80 =>
        LET result == probeResults["memory_usage"]
        IN  /\ memPercentage = 85 =>
                   (result.status = "critical" /\ result.value = 85)
            /\ memPercentage = 65 =>
                   (result.status = "warning" /\ result.value = 65)
            /\ memPercentage = 64 =>
                   (result.status = "healthy" /\ result.value = 64)

\* the memory probe, configured with threshold 80, has run at 65 percent
C9_Witness ==
    /\ ConfiguredAt80
    /\ alertThresholds.cpuUsage = Given1(50)
    /\ memPercentage = 65
    /\ probeResults["memory_usage"].value = 65

\* a limit that is a decimal literal greater than zero
PositiveLimit(q) ==
    q.present /\ IsDecimalLiteral(q.text) /\ LiteralValue(q.text) > 0

\* C11: for every positive limit L and every history, the metrics-history
\* response holds exactly the last min(L, history length) snapshots of the
\* history, oldest first; count is their number; latest is the most recent
\* snapshot of the history, absent only when the history is empty.
C11_HistoryResponse ==
    (historyResponse # <<>> /\ PositiveLimit(historyQuery)) =>
        LET body == historyResponse[1]
            L == LiteralValue(historyQuery.text)
        IN  /\ body.metrics = LastN(metricsHistory, L)
            /\ Len(body.metrics) = Min(L, Len(metricsHistory))
            /\ \A i \in 1..(Len(body.metrics) - 1) :
                   body.metrics[i].timestamp <= body.metrics[i + 1].timestamp
            /\ body.count = Len(body.metrics)
            /\ body.latest = IF metricsHistory = <<>> THEN <<>>
                             ELSE <<Last(metricsHistory)>>

\* a request with limit 5 on a history of more than 5 snapshots, answered
\* with 5 of them
C11_Witness ==
    /\ historyResponse # <<>>
    /\ historyQuery = Given(<<"5">>)
    /\ Len(metricsHistory) > 5
    /\ historyResponse[1].count = 5

\* C12: the health endpoint answers 200 iff the overall status derived from
\* the table of probe results at the instant of the request is healthy, and
\* 503 when it is warning or critical.
C12_HealthCode ==
    (healthResponse # <<>> /\ WellFormed(probeResults)) =>
        LET response == healthResponse[1]
            degraded == Has(probeResults, "critical") \/ Has(probeResults, "warning")
        IN  /\ ~response.threw
            /\ response.code = 200 <=> ~degraded
            /\ response.code = 200 <=> response.body.status = "healthy"
            /\ degraded => response.code = 503
            /\ response.body.probes = probeResults

\* a request answered 503 on a table whose worst result is a warning
C12_Witness ==
    /\ healthResponse # <<>>
    /\ WellFormed(probeResults)
    /\ Has(probeResults, "warning") /\ ~Has(probeResults, "critical")
    /\ healthResponse[1].code = 503

\* the interval a probe definition asks for
IntervalMs(probe) == IF probe.interval = <<>> THEN 60000 ELSE probe.interval[1]

C14_HealthNeverThrows ==
    healthResponse # <<>> =>
        /\ ~healthResponse[1].threw
        /\ DOMAIN healthResponse[1].body =
               {"status", "timestamp", "uptime", "metrics", "probes", "version"}
        /\ healthResponse[1].body.status \in Statuses

\* C15: snapshot collection is fail-soft.  When a read of the metrics source
\* fails during collectMetrics, the collection tick still appends a snapshot
\* to the history and the failure is not propagated: every tick so far has
\* appended one snapshot and no exception has left a callback.
C15_CollectionFailSoft ==
    /\ uncaught = 0
    /\ Len(collected) * metricsInterval = lastCollect - startTime

\* C16: the history is changed by the collection tick only.  A step that is
\* no tick (the collection timer is not armed again in it), be it
\* getCurrentMetrics, a health or metrics-history request, getProbeResults,
\* addProbe, the completion of a probe run, or a request start, end or error,
\* leaves the history as it was, entry for entry.
C16_HistoryFrame ==
    [][lastCollect' = lastCollect => metricsHistory' = metricsHistory]_vars

\* the history holds a snapshot, a probe has been added since, and a health
\* request is being answered
C16_Witness ==
    /\ metricsHistory # <<>>
    /\ Len(customProbes) > NumBuiltIn
    /\ healthResponse # <<>>

\* what a run stores when it finishes
ResultOf(run) ==
    IF run.outcome.type = "resolve" THEN run.outcome.value
    ELSE FailureResult(run.outcome.error)

\* the k-th suspended run finishes in this step
Finishes(k) ==
    /\ Len(pending') = Len(pending) - 1
    /\ \A j \in 1..(k - 1) : pending'[j].outcome = pending[j].outcome
    /\ \A j \in (k + 1)..Len(pending) : pending'[j - 1] = pending[j]
    /\ microtasks = <<>> /\ microtasks' = <<>>

\* C17: when runs of the same probe overlap, the entry of the probe is the
\* result of the run that finished last, whichever started first: every
\* suspended run that finishes stores its result, also when a run of its
\* probe that started later has stored one before.
C17_LastCompletionWins ==
    [][\A k \in DOMAIN pending :
           (Finishes(k) /\ pending[k].outcome.type # "hang")
               => probeResults'[pending[k].name] = ResultOf(pending[k])]_vars

\* two runs of the slow probe overlapped; the one that started later finished
\* first, the one that started first has finished since, and its result is
\* the entry
C17_Witness ==
    \E name \in DOMAIN writer :
        /\ writer[name].late
        /\ \A k \in DOMAIN pending : pending[k].name # name
        /\ probeResults[name] # Undefined

\* the probes registered under a name, by their place in customProbes
Registered(name) == {i \in DOMAIN customProbes : customProbes[i].name = name}

\* what a run of a probe can store
PossibleResults(probe) ==
    {ResultOf([outcome |-> o]) : o \in Outcomes(probe.check) \ {Hang}}

\* C18 as claimed: when a name is registered again, both timers keep firing,
\* and the entry of the name is last-registration-wins: once it holds a
\* result of the probe registered later it never holds a result of the probe
\* registered earlier again.
C18_LastRegistrationWins ==
    [][\A name \in DOMAIN writer : writer'[name].probe >= writer[name].probe]_vars

\* C18 as amended: when a name is registered again, the timers of all the
\* probes registered under it keep firing, and the entry of the name is the
\* result of whichever of them finished a run last: it was stored by a run
\* of a probe registered under the name, the earlier ones included, and is a
\* result of that probe.
C18_DuplicatesShareEntry ==
    \A name \in DOMAIN writer :
        /\ writer[name].probe \in Registered(name)
        /\ probeResults[name] \in PossibleResults(customProbes[writer[name].probe])
        /\ ~inTick => \A i \in Registered(name) : ENABLED TimerFire(i)

\* a name is registered twice, every run of the probe registered later has
\* finished, and the entry is a result of the probe registered earlier,
\* stored by a timer run
C18_Witness ==
    \E name \in DOMAIN writer :
        \E i, j \in Registered(name) :
            /\ i < j
            /\ writer[name].probe = i
            /\ timerRuns > 0
            /\ \A k \in DOMAIN pending : pending[k].probe # j
            /\ \A k \in DOMAIN microtasks : microtasks[k].probe # j
            /\ probeResults[name].status = "healthy"

RegisteredNames == {customProbes[i].name : i \in DOMAIN customProbes}

\* a step in which a run of a probe started or went on: a timer fired, a
\* probe was added, a suspended run resumed or the microtasks were run
SchedulerStep ==
    \/ timerRuns' # timerRuns
    \/ customProbes' # customProbes
    \/ pending' # pending
    \/ microtasks' # microtasks

\* a step of the collection timer, the request tracker or an HTTP handler
OtherStep ==
    \/ lastCollect' # lastCollect
    \/ trackerVars' # trackerVars
    \/ httpVars' # httpVars

\* C19: the table of probe results has at most one entry per probe name,
\* every key is the name of a registered probe, and only the completion of a
\* probe execution writes it: collection ticks, request tracking calls,
\* getProbeResults and the HTTP handlers leave it as it was.
C19_TableFrame ==
    /\ [](/\ DOMAIN probeResults \subseteq RegisteredNames
          /\ Cardinality(DOMAIN probeResults) <= Cardinality(RegisteredNames)
          /\ getProbeResults = probeResults)
    /\ [][/\ probeResults' # probeResults => SchedulerStep
          /\ OtherStep => probeResults' = probeResults]_vars

\* the table holds the result of an added probe beside the built-in ones, a
\* collection tick has run since, and a health request is being answered
C19_Witness ==
    /\ Cardinality(DOMAIN probeResults) > NumBuiltIn
    /\ Len(collected) > 0
    /\ healthResponse # <<>>

\* C20: after any sequence of endRequest and recordError calls, each of the
\* two windows holds at most 100 entries, and holds exactly the most recent
\* min(n, 100) of the n values appended to it, in the order they were
\* appended: the oldest value is the one evicted.
C20_WindowsKeepMostRecent ==
    /\ Len(requestTimes) <= WindowCapacity
    /\ Len(errorTimes) <= WindowCapacity
    /\ Len(requestTimes) = Min(Len(allRequestTimes), WindowCapacity)
    /\ Len(errorTimes) = Min(Len(allErrorTimes), WindowCapacity)
    /\ requestTimes = LastN(allRequestTimes, WindowCapacity)
    /\ errorTimes = LastN(allErrorTimes, WindowCapacity)

\* more than 100 values have been appended to each window, and the first
\* value appended to each is no longer in it
C20_Witness ==
    /\ Len(allRequestTimes) > WindowCapacity
    /\ Len(allErrorTimes) > WindowCapacity
    /\ Len(requestTimes) = WindowCapacity
    /\ Len(errorTimes) = WindowCapacity
    /\ requestTimes[1] # allRequestTimes[1]
    /\ errorTimes[1] # allErrorTimes[1]

\* the recordError calls of the trailing five minutes: the times pushed by
\* recordError that are later than five minutes before now
ErrorsInLastFiveMinutes ==
    SelectSeq(allErrorTimes, LAMBDA time : time > now - FiveMinutes)

\* C21: for every sequence of recordError calls and clock advances, the error
\* rate of getMetrics is the number of errors recorded in the trailing five
\* minutes divided by 5, and errors.total is the number of recordError calls
\* made so far.
C21_ErrorRate ==
    /\ getMetrics.errors.rate = [num |-> Len(ErrorsInLastFiveMinutes), den |-> 5]
    /\ getMetrics.errors.total = Len(allErrorTimes)

\* the requests that have passed through the middleware so far
Arrived == Len(inFlight) + Len(served)

\* the finished responses for which recordError is due
RecordedAsErrors ==
    SelectSeq(served, LAMBDA res : res.statusCode >= 400 /\ enableErrorTracking)

\* C22: with request tracking enabled, startRequest has been called once per
\* request that arrived and endRequest once per response that finished, with
\* the start timestamp taken at arrival (the latencies pushed are finish time
\* minus arrival time, response by response), and recordError once per
\* finished response whose status code is >= 400 if error tracking is
\* enabled, never otherwise.  With request tracking disabled no counter and
\* no window of the tracker changes.
C22_MiddlewareTracks ==
    IF enableRequestTracking
        THEN /\ nStart = Arrived
             /\ totalRequests = Arrived
             /\ nEnd = Len(served)
             /\ activeRequests = Len(inFlight)
             /\ allRequestTimes =
                    [i \in DOMAIN served |-> served[i].finished - served[i].arrived]
             /\ errors = Len(RecordedAsErrors)
             /\ allErrorTimes =
                    [i \in DOMAIN RecordedAsErrors |-> RecordedAsErrors[i].finished]
        ELSE /\ totalRequests = 0
             /\ activeRequests = 0
             /\ totalResponseTime = 0
             /\ errors = 0
             /\ requestTimes = <<>>
             /\ errorTimes = <<>>
             /\ nStart = 0
             /\ nEnd = 0

\* with tracking on and error tracking off, two requests have arrived, the
\* second has finished first with status 500 some time after it arrived, and
\* the first is still open
C22_Witness ==
    /\ enableRequestTracking
    /\ ~enableErrorTracking
    /\ Len(served) = 1
    /\ Len(inFlight) = 1
    /\ served[1].statusCode = 500
    /\ served[1].finished > served[1].arrived
    /\ inFlight[1].arrived < served[1].arrived

\* every registered probe has an entry in the table of results
AllHaveEntries ==
    \A i \in DOMAIN customProbes : customProbes[i].name \in DOMAIN probeResults

\* C23: a registered probe stays registered and goes on running: the list of
\* registered probes only grows, the timer of every registered probe can
\* fire whenever the event loop is idle, and under fair scheduling of the
\* timers every registered probe starts a run again and again (its timer
\* callback is the one that ran last, again and again, while those of the
\* other probes run as well); where every check completes, every registered
\* probe comes to have an entry in the table of results and keeps one.
C23_ProbeLifecycle ==
    /\ [][/\ Len(customProbes') >= Len(customProbes)
          /\ SubSeq(customProbes', 1, Len(customProbes)) = customProbes]_vars
    /\ [](\A i \in DOMAIN customProbes : ~inTick => ENABLED TimerFire(i))
    /\ \A i \in 1..MaxProbes :
           []<>(i \notin DOMAIN customProbes \/ fired = i)
    /\ <>[]AllHaveEntries

\* a probe added by the host is waiting for its check, which will resolve,
\* has no entry yet, and timers have fired since it was added
C23_Witness ==
    /\ Len(customProbes) > NumBuiltIn
    /\ \E k \in DOMAIN pending : pending[k].outcome.type = "resolve"
    /\ DelayedProbe.name \notin DOMAIN probeResults
    /\ pending # <<>>
    /\ timerRuns > 0

\* a health request is answered in this step
Answered ==
    /\ healthResponse' # healthResponse
    /\ healthResponse' # <<>>
    /\ ~healthResponse'[1].threw

\* C24: every health response is consistent in itself, however probe
\* completions fall among the requests: its status is the overall status of
\* the probes map it carries (and its code goes with it), and that map is the
\* table of probe results as it stood at the one instant the request was
\* answered, a step in which the table does not change.
C24_ConsistentResponse ==
    /\ []((healthResponse # <<>> /\ ~healthResponse[1].threw) =>
             LET response == healthResponse[1]
             IN  /\ response.body.status = getOverallStatus(response.body.probes)
                 /\ response.code = 200 <=> response.body.status = "healthy")
    /\ [][Answered =>
              /\ healthResponse'[1].body.probes = probeResults
              /\ probeResults' = probeResults]_vars

\* a response on its way out reports a degraded status from the table it
\* carries, and a probe run has completed and changed the table since
C24_Witness ==
    /\ healthResponse # <<>>
    /\ ~healthResponse[1].threw
    /\ healthResponse[1].body.status # "healthy"
    /\ healthResponse[1].body.probes # probeResults
    /\ DOMAIN healthResponse[1].body.probes # DOMAIN probeResults

\* the executions started so far that have run to their end: all that were
\* started, one per registration and one per timer callback, but those
\* suspended on a promise and those whose continuation is queued
Completed == Len(customProbes) + timerRuns - Len(pending) - Len(microtasks)

\* the suspended executions of probes of this name whose check never settles
HungRuns(runs, name) ==
    Cardinality({k \in DOMAIN runs :
                    runs[k].name = name /\ runs[k].outcome.type = "hang"})

\* the executions of probes of this name that will still end
LiveRuns(waiting, queued, name) ==
    Cardinality({k \in DOMAIN waiting :
                    waiting[k].name = name /\ waiting[k].outcome.type # "hang"})
        + Cardinality({k \in DOMAIN queued : queued[k].name = name})

\* an execution of a probe of this name ends in this step: one that was in
\* flight, or one started by this step's timer callback
RunEnds(name) ==
    \/ LiveRuns(pending', microtasks', name) < LiveRuns(pending, microtasks, name)
    \/ /\ timerRuns' # timerRuns
       /\ customProbes[fired'].name = name
       /\ LiveRuns(pending', microtasks', name) = LiveRuns(pending, microtasks, name)
       /\ HungRuns(pending', name) = HungRuns(pending, name)

EntryChanges(name) ==
    /\ name \in DOMAIN probeResults'
    /\ name \in DOMAIN probeResults => probeResults'[name] # probeResults[name]

\* C25: a probe bears on the overall status only through a run that has
\* completed.  While no run of any probe has completed the table is empty and
\* a health request is answered healthy, 200.  An execution whose check
\* never settles stays suspended, and the entry of a name changes only in a
\* step in which an execution of a probe of that name ends: a probe whose
\* check never settles has no entry, and a health response that is not
\* healthy carries a result that is not healthy, of another probe.
C25_OnlyCompletedRunsCount ==
    /\ [](Completed = 0 =>
             /\ DOMAIN probeResults = {}
             /\ healthResponse # <<>> =>
                    /\ ~healthResponse[1].threw
                    /\ healthResponse[1].code = 200
                    /\ healthResponse[1].body.status = "healthy")
    /\ [](HungProbe.name \notin DOMAIN probeResults)
    /\ []((healthResponse # <<>> /\ ~healthResponse[1].threw
                /\ healthResponse[1].body.status # "healthy") =>
             LET probes == healthResponse[1].body.probes
             IN  \E name \in DOMAIN probes \ {HungProbe.name} :
                     probes[name].status # "healthy")
    /\ [][\A name \in {customProbes[i].name : i \in DOMAIN customProbes} :
              /\ HungRuns(pending', name) >= HungRuns(pending, name)
              /\ EntryChanges(name) => RunEnds(name)]_vars

\* the check of a probe of the host hangs for the second time, the built-in
\* probes have results, and a health request is answered healthy, 200
C25_Witness ==
    /\ HungRuns(pending, HungProbe.name) = 2
    /\ Completed >= NumBuiltIn
    /\ healthResponse # <<>>
    /\ ~healthResponse[1].threw
    /\ healthResponse[1].code = 200

\* before any continuation has run the table is empty and a health request
\* is answered healthy, 200
C25_WitnessEmpty ==
    /\ Completed = 0
    /\ healthResponse # <<>>
    /\ healthResponse[1].code = 200

\* C26: getInstance is a singleton accessor.  Every call returns the same
\* instance, and a call made when the instance exists changes nothing: the
\* configuration in force (thresholds, tracking switches, configured
\* probes), the registered probes, the timers, the table of results and
\* everything else stay as they were, whatever configuration is passed.
C26_Singleton ==
    /\ [](\A k \in DOMAIN returned : returned[k] = returned[1])
    /\ [](returned # <<>> => instance = <<returned[1]>>)
    /\ [][(instance # <<>> /\ returned' # returned) =>
              /\ Last(returned') = instance[1]
              /\ UNCHANGED <<now, envVars, probeVars, trackerVars, historyVars,
                             healthResponse, historyQuery, historyResponse,
                             middlewareVars, instance>>]_vars

\* getInstance has been called a second time, on an instance built with a
\* memory threshold and a configured probe, after the host has added a probe
\* and the first results are in the table
C26_Witness ==
    /\ Len(returned) = 2
    /\ alertThresholds # NoThresholds
    /\ ~enableErrorTracking
    /\ Len(customProbes) = NumBuiltIn + 2
    /\ Len(timers) = NumBuiltIn + 2
    /\ DOMAIN probeResults # {}

====
